---- MODULE Spec2Model ----
(***************************************************************************)
(* A model of WethHelper (src/src/weth_helper.ts): one helper instance,    *)
(* its asynchronous initialization, the operations that await it, the      *)
(* calls they delegate to the contract bindings, and the chain those calls *)
(* act on.  getProxyAllowance is taken from the revision of the class in   *)
(* src/unnamed/part_001, the only one that defines it.                     *)
(***************************************************************************)
EXTENDS Integers, Sequences, FiniteSets, TLC

\* ------------------------------------------------------------------ bounds
\* Width of the unsigned base-unit type, scaled down from 256 bits.
UintBits == 1
\* Base-currency and wrapped balances every account starts with.
EthStart == 3
WethStart == 1
\* Largest fee the chain charges for one mined transaction (at least 1).
MaxFee == 1

\* Conversion inputs: exponents of ten -MaxScale .. MaxScale, explicit
\* decimals 0 .. MaxDecimals.
MaxScale == 2
MaxDecimals == 2

\* The operations in flight at once: two call sites of the same instance.
CallIds == {"c1", "c2"}

\* ------------------------------------------------------------------ values
None == <<>>
Some(x) == <<x>>
IsSome(m) == m # <<>>
Get(m) == m[1]

\* test/weth_test.ts:17  MAX_UINT256 = 2^256 - 1, at the scaled width
MAX_UINT256 == 2 ^ UintBits - 1

\* A BigNumber: an integer part and whether a fractional part follows it;
\* isBN is false for a value that is no BigNumber instance at all.
BN(i) == [isBN |-> TRUE, int |-> i, frac |-> FALSE]
Half == [isBN |-> TRUE, int |-> 0, frac |-> TRUE]
NotBN == [isBN |-> FALSE, int |-> 1, frac |-> FALSE]
AmountInputs == {BN(i) : i \in -1 .. MAX_UINT256 + 1} \cup {Half, NotBN}

\* A decimal value as the conversions see it: m * 10^e, or not a number.
\* A BigNumber keeps it normalised (no trailing zeros in m, zero as 0 * 10^0);
\* a caller's number or string need not be ("10", "1.50").
Decimal(m, e) == [nan |-> FALSE, m |-> m, e |-> e]
NaN == [nan |-> TRUE, m |-> 0, e |-> 0]
Mantissas == {-1, 0, 1, 10, 15}
ValueInputs ==
    {NaN} \cup {Decimal(m, e) : m \in Mantissas, e \in -MaxScale .. MaxScale}
DecimalsInputs == {None} \cup {Some(d) : d \in 0 .. MaxDecimals}

\* No conversion has been called yet.
NoConversions ==
    [fn |-> "none", value |-> NaN, decimals |-> None, threw |-> FALSE,
     error |-> <<>>, out |-> NaN, roundTripOf |-> None]

Accounts == {"0xA1", "0xA2"}
Null == "null"
Undefined == "undefined"

\* Partial<TxData>: the fields the helper's code reads or forwards.
TxData(f, v) == [from |-> f, value |-> v]
EmptyTxData == TxData(None, None)
TxDefaultInputs == {EmptyTxData, TxData(Some("0xA2"), None), TxData(None, Some(1))}
TxOptionInputs ==
    {None, Some(EmptyTxData), Some(TxData(Some("0xA2"), None)), Some(TxData(None, Some(1)))}

\* Error messages are sequences of fragments; annotation prepends a prefix.
Annotate(prefix, msg) == <<prefix>> \o msg
UnderlyingError == <<"underlying error">>

\* --------------------------------------------------- external collaborators
\* getContractAddressesForNetworkOrThrow: the networks it knows, and the
\* canonical wrapped-ether token of each.
KnownNetworks == {"50"}
NetworkInputs == {"50", "99"}
etherToken(id) == "weth@" \o id

InitPrefix == "[weth-helper] failed to initialize: "
WrapPrefix == "[weth-helper] failed to wrap ether: "
UnwrapPrefix == "[weth-helper] failed to wrap ether: "
EtherBalancePrefix == "[weth-helper] failed to get ether balance: "
WethBalancePrefix == "[weth-helper] failed to get WETH balance: "
SetAllowancePrefix == "[weth-helper] failed to set ERC-20 proxy allowance for WETH: "
GetAllowancePrefix == "[weth-helper] failed to get ERC-20 proxy allowance for WETH: "

Prefix(op) ==
    CASE op = "wrap" -> WrapPrefix
      [] op = "unwrap" -> UnwrapPrefix
      [] op = "getEtherBalance" -> EtherBalancePrefix
      [] op = "getWethBalance" -> WethBalancePrefix
      [] op = "setProxyAllowance" -> SetAllowancePrefix
      [] OTHER -> GetAllowancePrefix

AmountOps == {"wrap", "unwrap", "setProxyAllowance"}

\* ------------------------------------------------------------------- state
VARIABLES
    provider,     \* the JSON-RPC provider: validity, network ID, accounts
    constructed,  \* "no", "yes", or "threw" (the constructor threw)
    ready, networkId, wethAddress, coinbase,   \* public fields
    txDefaults,   \* _txDefaults
    configured,   \* the txDefaults argument the constructor was given
    assigned,     \* how often each derived field has been assigned
    weth, erc20,  \* _weth, _erc20: None until constructed
    init,         \* _init: the initialization promise and where the task stands
    started,      \* how often each initialization step has been started
    call,         \* the operation calls made on the instance
    delegated,    \* per call, the delegated calls it has issued
    txs,          \* transactions accepted by the node; the index is the tx ID
    ethBal, wethBal, allowance,  \* chain state per account
    conv          \* the last two calls of toBaseUnits / fromBaseUnits

helperVars ==
    <<constructed, ready, networkId, wethAddress, coinbase, txDefaults, configured, assigned,
      weth, erc20>>
chainVars == <<txs, ethBal, wethBal, allowance>>
vars == <<provider, helperVars, init, started, call, delegated, chainVars, conv>>

IdleCall ==
    [via |-> "none", op |-> "none", amount |-> BN(0), options |-> None, address |-> None,
     pc |-> "idle", error |-> <<>>, result |-> None]

\* No instance exists yet; Construct is the constructor.  The provider and
\* the chain are whatever the environment hands the program.
Init ==
    /\ provider \in [valid : BOOLEAN, networkId : NetworkInputs,
                     accounts : {<<>>, <<"0xA1", "0xA2">>}]
    /\ constructed = "no"
    /\ ready = FALSE
    /\ networkId = Undefined
    /\ wethAddress = Undefined
    /\ coinbase = Undefined
    /\ txDefaults = EmptyTxData
    /\ configured = EmptyTxData
    /\ assigned = [networkId |-> 0, wethAddress |-> 0, coinbase |-> 0]
    /\ weth = None
    /\ erc20 = None
    /\ init = [state |-> "none", error |-> <<>>]
    /\ started = [initialize |-> 0, getNetworkId |-> 0, getAvailableAddresses |-> 0,
                  weth |-> 0, erc20 |-> 0]
    /\ call = [c \in CallIds |-> IdleCall]
    /\ delegated = [c \in CallIds |-> <<>>]
    /\ txs = <<>>
    /\ ethBal = [a \in Accounts |-> EthStart]
    /\ wethBal = [a \in Accounts |-> WethStart]
    /\ allowance = [a \in Accounts |-> 0]
    /\ conv = NoConversions

\* --------------------------------------------------------- initialization
\* _initialize up to its first await: the network-ID lookup is requested.
InitializeStart ==
    /\ init' = [state |-> "networkId", error |-> <<>>]
    /\ started' = [started EXCEPT !.initialize = @ + 1, !.getNetworkId = @ + 1]

\* constructor(provider, txDefaults)
Construct_validatesLast(td) ==
    /\ constructed = "no"
    /\ constructed' = IF provider.valid THEN "yes" ELSE "threw"
    /\ ready' = FALSE
    /\ txDefaults' = td
    /\ configured' = td
    /\ InitializeStart
    /\ UNCHANGED <<provider, conv, assigned, networkId, wethAddress, coinbase, weth, erc20,
                   call, delegated, chainVars>>

Construct(td) ==
    /\ constructed = "no"
    /\ IF ~provider.valid
       THEN /\ constructed' = "threw"
            /\ UNCHANGED <<ready, txDefaults, configured, init, started>>
       ELSE /\ constructed' = "yes"
            /\ ready' = FALSE
            /\ txDefaults' = td
            /\ configured' = td
            /\ InitializeStart
    /\ UNCHANGED <<provider, conv, assigned, networkId, wethAddress, coinbase, weth, erc20,
                   call, delegated, chainVars>>

InitFail_rethrow(msg) == init' = [state |-> "rejected", error |-> msg]

InitFail(msg) ==
    init' = [state |-> "rejected", error |-> Annotate(InitPrefix, msg)]

InitNetworkId_setsReady ==
    /\ init.state = "networkId"
    /\ \/ /\ InitFail(UnderlyingError)
          /\ UNCHANGED <<networkId, wethAddress, assigned, started, ready>>
       \/ /\ networkId' = provider.networkId
          /\ ready' = TRUE
          /\ IF provider.networkId \in KnownNetworks
             THEN /\ wethAddress' = etherToken(provider.networkId)
                  /\ assigned' = [assigned EXCEPT !.networkId = @ + 1,
                                                  !.wethAddress = @ + 1]
                  /\ started' = [started EXCEPT !.getAvailableAddresses = @ + 1]
                  /\ init' = [init EXCEPT !.state = "addresses"]
             ELSE /\ InitFail(<<"Unknown network id">>)
                  /\ assigned' = [assigned EXCEPT !.networkId = @ + 1]
                  /\ UNCHANGED <<wethAddress, started>>
    /\ UNCHANGED <<provider, conv, configured, constructed, coinbase, txDefaults, weth, erc20,
                   call, delegated, chainVars>>

\* _initialize resumed by the network-ID lookup: the ID is stored, the
\* canonical address resolved, and the account lookup requested.
InitNetworkId ==
    /\ init.state = "networkId"
    /\ \/ /\ InitFail(UnderlyingError)
          /\ UNCHANGED <<networkId, wethAddress, assigned, started>>
       \/ /\ networkId' = provider.networkId
          /\ IF provider.networkId \in KnownNetworks
             THEN /\ wethAddress' = etherToken(provider.networkId)
                  /\ assigned' = [assigned EXCEPT !.networkId = @ + 1,
                                                  !.wethAddress = @ + 1]
                  /\ started' = [started EXCEPT !.getAvailableAddresses = @ + 1]
                  /\ init' = [init EXCEPT !.state = "addresses"]
             ELSE /\ InitFail(<<"Unknown network id">>)
                  /\ assigned' = [assigned EXCEPT !.networkId = @ + 1]
                  /\ UNCHANGED <<wethAddress, started>>
    /\ UNCHANGED <<provider, conv, configured, constructed, ready, coinbase, txDefaults, weth, erc20,
                   call, delegated, chainVars>>

\* addresses.length > 0 ? addresses[0] : null
FirstAddress_last(addresses) ==
    IF Len(addresses) > 0 THEN addresses[Len(addresses)] ELSE Null

FirstAddress(addresses) == IF Len(addresses) > 0 THEN addresses[1] ELSE Null

\* this._txDefaults.from = this._txDefaults.from ? this._txDefaults.from : this.coinbase
DefaultSender_alwaysCoinbase(td, cb) == [td EXCEPT !.from = Some(cb)]

DefaultSender(td, cb) == [td EXCEPT !.from = IF IsSome(@) THEN @ ELSE Some(cb)]

InitAddresses_readyBeforeLookup ==
    /\ init.state = "addresses"
    /\ ready' = TRUE
    /\ \/ /\ InitFail(UnderlyingError)
          /\ UNCHANGED <<coinbase, txDefaults, assigned, weth, erc20, started>>
       \/ LET cb == FirstAddress(provider.accounts)
              td == DefaultSender(txDefaults, cb)
          IN /\ coinbase' = cb
             /\ assigned' = [assigned EXCEPT !.coinbase = @ + 1]
             /\ txDefaults' = td
             /\ weth' = Some([address |-> wethAddress, defaults |-> td])
             /\ erc20' = Some([defaults |-> td])
             /\ started' = [started EXCEPT !.weth = @ + 1, !.erc20 = @ + 1]
             /\ init' = [init EXCEPT !.state = "fulfilled"]
    /\ UNCHANGED <<provider, conv, configured, constructed, networkId, wethAddress,
                   call, delegated, chainVars>>

\* _initialize resumed by the account lookup: coinbase, the default sender
\* and the two bindings are set, and last of all the readiness flag.
InitAddresses ==
    /\ init.state = "addresses"
    /\ \/ /\ InitFail(UnderlyingError)
          /\ UNCHANGED <<coinbase, txDefaults, assigned, weth, erc20, ready, started>>
       \/ LET cb == FirstAddress(provider.accounts)
              td == DefaultSender(txDefaults, cb)
          IN /\ coinbase' = cb
             /\ assigned' = [assigned EXCEPT !.coinbase = @ + 1]
             /\ txDefaults' = td
             /\ weth' = Some([address |-> wethAddress, defaults |-> td])
             /\ erc20' = Some([defaults |-> td])
             /\ started' = [started EXCEPT !.weth = @ + 1, !.erc20 = @ + 1]
             /\ ready' = TRUE
             /\ init' = [init EXCEPT !.state = "fulfilled"]
    /\ UNCHANGED <<provider, conv, configured, constructed, networkId, wethAddress,
                   call, delegated, chainVars>>

\* ------------------------------------------------------------- validation
\* assert.isBigNumber(name, value): the error it throws, or <<>>.
isBigNumber(value) ==
    IF value.isBN THEN <<>> ELSE <<"Expected amount to be of type BigNumber">>

isValidBaseUnitAmount_noSignCheck(value) ==
    IF ~value.isBN THEN <<"Expected amount to be of type BigNumber">>
    ELSE IF value.frac THEN <<"amount should be in baseUnits (no decimals)">>
    ELSE <<>>

\* assert.isValidBaseUnitAmount(name, value): a BigNumber that is neither
\* negative nor fractional; it puts no upper limit on the value.
isValidBaseUnitAmount(value) ==
    IF isBigNumber(value) # <<>> THEN isBigNumber(value)
    ELSE IF value.int < 0 THEN <<"amount cannot be a negative number">>
    ELSE IF value.frac THEN <<"amount should be in baseUnits (no decimals)">>
    ELSE <<>>

\* The two assertions wrap, unwrap and setProxyAllowance make on `amount`.
ValidateAmount(amount) ==
    IF isBigNumber(amount) # <<>> THEN isBigNumber(amount)
    ELSE isValidBaseUnitAmount(amount)

\* assert.isETHAddressHex
isETHAddressHex(address) ==
    IF address \in Accounts THEN <<>> ELSE <<"Expected owner to be of type ETHAddressHex">>

\* ------------------------------------------------------------- conversions
RECURSIVE Normalise(_, _)
Normalise(m, e) ==
    IF m = 0 THEN Decimal(0, 0)
    ELSE IF m % 10 = 0 THEN Normalise(m \div 10, e + 1)
    ELSE Decimal(m, e)

\* new BigNumber(value): NaN for what is not numeric
NewBigNumber(value) == IF value.nan THEN NaN ELSE Normalise(value.m, value.e)

\* bn.isNegative()
isNegative(bn) == ~bn.nan /\ bn.m < 0

\* bn.decimalPlaces(): the number of fractional digits, none (null) for NaN
decimalPlaces(bn) ==
    IF bn.nan THEN None ELSE Some(IF bn.e < 0 THEN -bn.e ELSE 0)

\* What the assertions read of a BigNumber: its sign, and whether
\* decimalPlaces() differs from 0.
AsAmount(bn) ==
    [isBN |-> TRUE, int |-> bn.m, frac |-> decimalPlaces(bn) # Some(0)]

\* decimals: number = 18
DefaultDecimals == 18

Decimals_ignoresArgument(decimals) == DefaultDecimals

Decimals(decimals) == IF IsSome(decimals) THEN Get(decimals) ELSE DefaultDecimals

\* amount.times(unit), unit = 10^decimals (decimals may be negative here:
\* toUnitAmount divides)
TimesUnit(bn, decimals) == IF bn.m = 0 THEN bn ELSE [bn EXCEPT !.e = @ + decimals]

Returns(bn) == [threw |-> FALSE, error |-> <<>>, out |-> bn]
Throws(msg) == [threw |-> TRUE, error |-> msg, out |-> NaN]

\* Web3Wrapper.toBaseUnitAmount(bn, decimals): throws when the product has
\* decimal places.
toBaseUnitAmount_noDecimalsCheck(bn, decimals) == Returns(TimesUnit(bn, decimals))

toBaseUnitAmount(bn, decimals) ==
    IF decimalPlaces(TimesUnit(bn, decimals)) # Some(0)
    THEN Throws(<<"Invalid unit amount: Too many decimal places">>)
    ELSE Returns(TimesUnit(bn, decimals))

\* Web3Wrapper.toUnitAmount(bn, decimals): amount.div(10^decimals)
toUnitAmount_multiplies(bn, decimals) == Returns(TimesUnit(bn, decimals))

toUnitAmount(bn, decimals) == Returns(TimesUnit(bn, -decimals))

\* toBaseUnits(value, decimals) as a function of its arguments.
ToBaseUnits_noSignCheck(value, decimals) ==
    IF NewBigNumber(value).nan
    THEN Throws(<<"[weth-helper] invalid base unit value (must be positive and numerical)">>)
    ELSE toBaseUnitAmount(NewBigNumber(value), Decimals(decimals))

ToBaseUnits(value, decimals) ==
    IF NewBigNumber(value).nan \/ isNegative(NewBigNumber(value))
    THEN Throws(<<"[weth-helper] invalid base unit value (must be positive and numerical)">>)
    ELSE toBaseUnitAmount(NewBigNumber(value), Decimals(decimals))

\* fromBaseUnits(value, decimals) as a function of its arguments.
FromBaseUnits_noValidation(value, decimals) ==
    IF NewBigNumber(value).nan
    THEN Throws(<<"value should be in baseUnits (no decimals)">>)
    ELSE toUnitAmount(NewBigNumber(value), Decimals(decimals))

FromBaseUnits(value, decimals) ==
    IF isValidBaseUnitAmount(AsAmount(NewBigNumber(value))) # <<>>
    THEN Throws(isValidBaseUnitAmount(AsAmount(NewBigNumber(value))))
    ELSE toUnitAmount(NewBigNumber(value), Decimals(decimals))

Convert_awaitsInit(fn, value, decimals, outcome) ==
    /\ constructed = "yes"
    /\ init.state \in {"fulfilled", "rejected"}
    /\ LET settled == IF init.state = "rejected" THEN Throws(init.error) ELSE outcome
       IN conv' = [fn |-> fn, value |-> value, decimals |-> decimals,
                   threw |-> settled.threw, error |-> settled.error, out |-> settled.out,
                   roundTripOf |-> None]
    /\ UNCHANGED <<provider, helperVars, init, started, call, delegated, chainVars>>

\* A conversion is an ordinary synchronous method of the instance: it reads
\* and writes none of the instance's fields.  `roundTripOf` remembers the
\* argument of the previous conversion when this one is the other function,
\* applied to what the previous one returned, with the same decimals.
Convert(fn, value, decimals, outcome) ==
    /\ constructed = "yes"
    /\ conv' = [fn |-> fn, value |-> value, decimals |-> decimals,
                threw |-> outcome.threw, error |-> outcome.error, out |-> outcome.out,
                roundTripOf |->
                    IF /\ conv.fn \notin {"none", fn}
                       /\ ~conv.threw
                       /\ value = conv.out
                       /\ decimals = conv.decimals
                    THEN Some(conv.value) ELSE None]
    /\ UNCHANGED <<provider, helperVars, init, started, call, delegated, chainVars>>

toBaseUnits(value, decimals) ==
    Convert("toBaseUnits", value, decimals, ToBaseUnits(value, decimals))

fromBaseUnits(value, decimals) ==
    Convert("fromBaseUnits", value, decimals, FromBaseUnits(value, decimals))

\* -------------------------------------------------------------- operations
Invoke_reinitialize(c, via, op, amount, options, address) ==
    /\ constructed = "yes"
    /\ call[c].pc = "idle"
    /\ call' = [call EXCEPT ![c] =
                   [pc |-> "awaitInit", via |-> via, op |-> op, amount |-> amount,
                    options |-> options, address |-> address, error |-> <<>>,
                    result |-> None]]
    /\ InitializeStart
    /\ UNCHANGED <<provider, conv, helperVars, delegated, chainVars>>

\* `via` is the public method the caller invoked, `op` the method whose body
\* runs.
Invoke(c, via, op, amount, options, address) ==
    /\ constructed = "yes"
    /\ call[c].pc = "idle"
    /\ call' = [call EXCEPT ![c] =
                   [IdleCall EXCEPT !.via = via, !.op = op, !.amount = amount,
                                    !.options = options, !.address = address,
                                    !.pc = "awaitInit"]]
    /\ UNCHANGED <<provider, conv, helperVars, init, started, delegated, chainVars>>

\* Each operation runs up to `await this._init` when it is called.
wrap(c, amount, txOptions) == Invoke(c, "wrap", "wrap", amount, txOptions, None)

unwrap(c, amount, txOptions) == Invoke(c, "unwrap", "unwrap", amount, txOptions, None)

setProxyAllowanceVia(c, via, amount, txOptions) ==
    Invoke(c, via, "setProxyAllowance", amount, txOptions, None)

setProxyAllowance(c, amount, txOptions) ==
    setProxyAllowanceVia(c, "setProxyAllowance", amount, txOptions)

\* ERC20Token.UNLIMITED_ALLOWANCE
UNLIMITED_ALLOWANCE_plusOne == BN(MAX_UINT256 + 1)

UNLIMITED_ALLOWANCE == BN(MAX_UINT256)

\* return this.setProxyAllowance(ERC20Token.UNLIMITED_ALLOWANCE, txDefaults)
setUnlimitedProxyAllowance(c, txOptions) ==
    setProxyAllowanceVia(c, "setUnlimitedProxyAllowance", UNLIMITED_ALLOWANCE, txOptions)

getEtherBalance(c, address) ==
    Invoke(c, "getEtherBalance", "getEtherBalance", BN(0), None, address)

getWethBalance(c, address) ==
    Invoke(c, "getWethBalance", "getWethBalance", BN(0), None, address)

\* getProxyAllowance checks a given owner before it awaits anything.
getProxyAllowance(c, owner) ==
    IF IsSome(owner) /\ isETHAddressHex(Get(owner)) # <<>>
    THEN /\ constructed = "yes"
         /\ call[c].pc = "idle"
         /\ call' = [call EXCEPT ![c] =
                        [IdleCall EXCEPT !.via = "getProxyAllowance",
                                         !.op = "getProxyAllowance", !.address = owner,
                                         !.pc = "rejected",
                                         !.error = isETHAddressHex(Get(owner))]]
         /\ UNCHANGED <<provider, conv, helperVars, init, started, delegated, chainVars>>
    ELSE Invoke(c, "getProxyAllowance", "getProxyAllowance", BN(0), None, owner)

\* const options = txDefaults || this._txDefaults
Options_ignoresPerCall(txOptions) == txDefaults

Options(txOptions) == IF IsSome(txOptions) THEN Get(txOptions) ELSE txDefaults

\* { value: amount, ...options }: a value in options replaces the amount
DepositTxData(amount, options) ==
    TxData(options.from, IF IsSome(options.value) THEN options.value ELSE Some(amount.int))

\* withdraw.validateAndSendTransactionAsync(amount, options)
WithdrawCall_callsDeposit(amount, options) ==
    [kind |-> "deposit", arg |-> None, txData |-> TxData(options.from, Some(amount.int))]

WithdrawCall(amount, options) ==
    [kind |-> "withdraw", arg |-> Some(amount.int), txData |-> options]

\* address || this.coinbase
Owner_alwaysCoinbase(address) == coinbase

Owner(address) == IF IsSome(address) THEN Get(address) ELSE coinbase

\* this._erc20.setProxyAllowanceAsync(this.wethAddress, amount, options)
SetAllowanceCall_alwaysUnlimited(amount, options) ==
    [kind |-> "setProxyAllowance", token |-> wethAddress,
     arg |-> Some(MAX_UINT256), txData |-> options]

SetAllowanceCall(amount, options) ==
    [kind |-> "setProxyAllowance", token |-> wethAddress,
     arg |-> Some(amount.int), txData |-> options]

\* this._erc20.getBalanceAsync(this.wethAddress, address || this.coinbase)
WethBalanceCall_readsEther(address) ==
    [kind |-> "getBalanceInWei", token |-> Undefined, owner |-> Owner(address)]

WethBalanceCall(address) ==
    [kind |-> "getBalance", token |-> wethAddress, owner |-> Owner(address)]

\* erc20.getProxyAllowanceAsync(wethAddress, address)
ProxyAllowanceCall_readsBalance(owner) ==
    [kind |-> "getBalance", token |-> wethAddress, owner |-> Owner(owner)]

ProxyAllowanceCall(owner) ==
    [kind |-> "getProxyAllowance", token |-> wethAddress, owner |-> Owner(owner)]

\* The call each operation delegates, with the arguments it passes.
DelegatedCall(c) ==
    LET op == call[c].op
        amount == call[c].amount
        options == Options(call[c].options)
        blank == [kind |-> "none", token |-> Undefined, arg |-> None,
                  owner |-> Undefined, txData |-> EmptyTxData]
    IN CASE op = "wrap" ->
              [blank EXCEPT !.kind = "deposit", !.txData = DepositTxData(amount, options)]
         [] op = "unwrap" ->
              [blank EXCEPT !.kind = WithdrawCall(amount, options).kind,
                            !.arg = WithdrawCall(amount, options).arg,
                            !.txData = WithdrawCall(amount, options).txData]
         [] op = "setProxyAllowance" ->
              [blank EXCEPT !.kind = SetAllowanceCall(amount, options).kind,
                            !.token = SetAllowanceCall(amount, options).token,
                            !.arg = SetAllowanceCall(amount, options).arg,
                            !.txData = SetAllowanceCall(amount, options).txData]
         [] op = "getEtherBalance" ->
              [blank EXCEPT !.kind = "getBalanceInWei", !.owner = Owner(call[c].address)]
         [] op = "getWethBalance" ->
              [blank EXCEPT !.kind = WethBalanceCall(call[c].address).kind,
                            !.token = WethBalanceCall(call[c].address).token,
                            !.owner = WethBalanceCall(call[c].address).owner]
         [] OTHER ->
              [blank EXCEPT !.kind = ProxyAllowanceCall(call[c].address).kind,
                            !.token = ProxyAllowanceCall(call[c].address).token,
                            !.owner = ProxyAllowanceCall(call[c].address).owner]

Reject(c, msg) == call' = [call EXCEPT ![c].pc = "rejected", ![c].error = msg]

TryDelegate_issuesTwice(c) ==
    /\ delegated' = [delegated EXCEPT ![c] = @ \o <<DelegatedCall(c), DelegatedCall(c)>>]
    /\ \/ Reject(c, Annotate(Prefix(call[c].op), UnderlyingError))
       \/ call' = [call EXCEPT ![c].pc = "awaitCall"]

\* try { return <delegated call> } catch (error) { throw annotated }: the call
\* is issued; a synchronous throw is caught and annotated, a returned promise
\* is handed back as it is, without being awaited.
TryDelegate(c) ==
    /\ delegated' = [delegated EXCEPT ![c] = Append(@, DelegatedCall(c))]
    /\ \/ Reject(c, Annotate(Prefix(call[c].op), UnderlyingError))
       \/ call' = [call EXCEPT ![c].pc = "awaitCall"]

AfterInit_resetsOnReject(c) ==
    /\ call[c].pc = "awaitInit"
    /\ init.state \in {"fulfilled", "rejected"}
    /\ IF init.state = "rejected"
       THEN Reject(c, init.error) /\ UNCHANGED <<delegated, ready, init>>
       ELSE IF call[c].op \in AmountOps /\ ValidateAmount(call[c].amount) # <<>>
       THEN /\ Reject(c, ValidateAmount(call[c].amount))
            /\ ready' = FALSE
            /\ init' = [state |-> "rejected", error |-> ValidateAmount(call[c].amount)]
            /\ UNCHANGED delegated
       ELSE TryDelegate(c) /\ UNCHANGED <<ready, init>>
    /\ UNCHANGED <<provider, conv, constructed, networkId, wethAddress, coinbase, txDefaults,
                   configured, assigned, weth, erc20, started, chainVars>>

AfterInit_validatesFirst(c) ==
    /\ call[c].pc = "awaitInit"
    /\ IF call[c].op \in AmountOps /\ ValidateAmount(call[c].amount) # <<>>
       THEN Reject(c, ValidateAmount(call[c].amount)) /\ UNCHANGED delegated
       ELSE /\ init.state \in {"fulfilled", "rejected"}
            /\ IF init.state = "rejected"
               THEN Reject(c, init.error) /\ UNCHANGED delegated
               ELSE TryDelegate(c)
    /\ UNCHANGED <<provider, conv, helperVars, init, started, chainVars>>

AfterInit_noAwait(c) ==
    /\ call[c].pc = "awaitInit"
    /\ IF init.state = "rejected"
       THEN Reject(c, init.error) /\ UNCHANGED delegated
       ELSE IF call[c].op \in AmountOps /\ ValidateAmount(call[c].amount) # <<>>
       THEN Reject(c, ValidateAmount(call[c].amount)) /\ UNCHANGED delegated
       ELSE TryDelegate(c)
    /\ UNCHANGED <<provider, conv, helperVars, init, started, chainVars>>

\* The continuation of an operation after `await this._init`.
AfterInit(c) ==
    /\ call[c].pc = "awaitInit"
    /\ init.state \in {"fulfilled", "rejected"}
    /\ IF init.state = "rejected"
       THEN Reject(c, init.error) /\ UNCHANGED delegated
       ELSE IF call[c].op \in AmountOps /\ ValidateAmount(call[c].amount) # <<>>
       THEN Reject(c, ValidateAmount(call[c].amount)) /\ UNCHANGED delegated
       ELSE TryDelegate(c)
    /\ UNCHANGED <<provider, conv, helperVars, init, started, chainVars>>

\* ------------------------------------------------- bindings, node and chain
\* A contract binding fills the fields its call leaves out from the
\* defaults it was constructed with.
ApplyDefaults(defaults, txData) ==
    TxData(IF IsSome(txData.from) THEN txData.from ELSE defaults.from,
           IF IsSome(txData.value) THEN txData.value ELSE defaults.value)

SendKinds == {"deposit", "withdraw", "setProxyAllowance"}

LastDelegated(c) == delegated[c][Len(delegated[c])]

\* The transaction a delegated send submits.
TxOf(c) ==
    LET d == LastDelegated(c)
        binding == IF d.kind = "setProxyAllowance" THEN Get(erc20) ELSE Get(weth)
        td == ApplyDefaults(binding.defaults, d.txData)
    IN [kind |-> d.kind, from |-> Get(td.from),
        value |-> IF IsSome(td.value) THEN Get(td.value) ELSE 0,
        arg |-> IF IsSome(d.arg) THEN Get(d.arg) ELSE 0,
        status |-> "pending", by |-> c]

\* What a delegated read returns.
ReadOf(c) ==
    LET d == LastDelegated(c)
    IN CASE d.kind = "getBalanceInWei" -> ethBal[d.owner]
         [] d.kind = "getBalance" -> wethBal[d.owner]
         [] OTHER -> allowance[d.owner]

AccountsOf(p) == {p.accounts[i] : i \in 1 .. Len(p.accounts)}

\* The promise a delegated call returned settles: a send resolves to the ID
\* of the submitted transaction, a read to the value read; either may reject,
\* and the operation's promise settles the same way.
SettleDelegated(c) ==
    /\ call[c].pc = "awaitCall"
    /\ \/ /\ Reject(c, UnderlyingError)
          /\ UNCHANGED txs
       \/ /\ LastDelegated(c).kind \in SendKinds
          /\ TxOf(c).from \in AccountsOf(provider)
          /\ TxOf(c).value <= MAX_UINT256
          /\ TxOf(c).arg <= MAX_UINT256
          /\ txs' = Append(txs, TxOf(c))
          /\ call' = [call EXCEPT ![c].pc = "fulfilled", ![c].result = Some(Len(txs) + 1)]
       \/ /\ LastDelegated(c).kind \notin SendKinds
          /\ LastDelegated(c).owner \in Accounts
          /\ call' = [call EXCEPT ![c].pc = "fulfilled", ![c].result = Some(ReadOf(c))]
          /\ UNCHANGED txs
    /\ UNCHANGED <<provider, conv, helperVars, init, started, delegated, ethBal, wethBal, allowance>>

\* Whether the chain executes a transaction successfully at a given fee.
Executes(tx, fee) ==
    CASE tx.kind = "deposit" -> ethBal[tx.from] >= tx.value + fee
      [] tx.kind = "withdraw" ->
            tx.value = 0 /\ wethBal[tx.from] >= tx.arg /\ ethBal[tx.from] >= fee
      [] OTHER -> tx.value = 0 /\ ethBal[tx.from] >= fee

\* The chain mines a pending transaction, charging its sender a fee.
\* WETH9.deposit credits the value sent, WETH9.withdraw debits the amount
\* and pays it out, approve sets the proxy's allowance.
Mine(i, fee) ==
    /\ txs[i].status = "pending"
    /\ LET tx == txs[i]
           s == tx.from
       IN IF Executes(tx, fee)
          THEN /\ txs' = [txs EXCEPT ![i].status = "success"]
               /\ CASE tx.kind = "deposit" ->
                         /\ ethBal' = [ethBal EXCEPT ![s] = @ - tx.value - fee]
                         /\ wethBal' = [wethBal EXCEPT ![s] = @ + tx.value]
                         /\ UNCHANGED allowance
                    [] tx.kind = "withdraw" ->
                         /\ ethBal' = [ethBal EXCEPT ![s] = @ + tx.arg - fee]
                         /\ wethBal' = [wethBal EXCEPT ![s] = @ - tx.arg]
                         /\ UNCHANGED allowance
                    [] OTHER ->
                         /\ ethBal' = [ethBal EXCEPT ![s] = @ - fee]
                         /\ allowance' = [allowance EXCEPT ![s] = tx.arg]
                         /\ UNCHANGED wethBal
          ELSE /\ txs' = [txs EXCEPT ![i].status = "failed"]
               /\ ethBal' = [ethBal EXCEPT ![s] = IF @ >= fee THEN @ - fee ELSE 0]
               /\ UNCHANGED <<wethBal, allowance>>
    /\ UNCHANGED <<provider, conv, helperVars, init, started, call, delegated>>

\* ------------------------------------------------------------ specification
AddressInputs == {None, Some("0xA2")}
OwnerInputs == {None, Some("0xA2"), Some("foo")}
\* Every amount without per-call options, and the valid amounts 0 and 1 with
\* each kind of per-call options (the options are read only after validation).
AmountCallInputs ==
    (AmountInputs \X {None}) \cup ({BN(0), BN(1)} \X (TxOptionInputs \ {None}))

Next ==
    \/ \E td \in TxDefaultInputs : Construct(td)
    \/ InitNetworkId
    \/ InitAddresses
    \/ \E c \in CallIds, in \in AmountCallInputs : wrap(c, in[1], in[2])
    \/ \E c \in CallIds, in \in AmountCallInputs : unwrap(c, in[1], in[2])
    \/ \E c \in CallIds, in \in AmountCallInputs : setProxyAllowance(c, in[1], in[2])
    \/ \E c \in CallIds, o \in TxOptionInputs : setUnlimitedProxyAllowance(c, o)
    \/ \E c \in CallIds, a \in AddressInputs : getEtherBalance(c, a)
    \/ \E c \in CallIds, a \in AddressInputs : getWethBalance(c, a)
    \/ \E c \in CallIds, a \in OwnerInputs : getProxyAllowance(c, a)
    \/ \E c \in CallIds : AfterInit(c)
    \/ \E c \in CallIds : SettleDelegated(c)
    \/ \E i \in 1 .. Len(txs), fee \in 1 .. MaxFee : Mine(i, fee)

Spec == Init /\ [][Next]_vars

\* The conversions on their own: an instance over a working provider, whose
\* initialisation runs while toBaseUnits and fromBaseUnits are called with
\* every bounded input, and with what the previous call returned.
InitConversions ==
    /\ Init
    /\ provider.valid
    /\ provider.accounts # <<>>

\* What the previous conversion returned, when it was called on an input of
\* the caller's own.
ReturnedBefore ==
    IF conv.fn # "none" /\ ~conv.threw /\ conv.value \in ValueInputs
    THEN {conv.out} ELSE {}

NextConversions ==
    \/ \E td \in TxDefaultInputs : Construct(td)
    \/ InitNetworkId
    \/ InitAddresses
    \/ \E v \in ValueInputs \cup ReturnedBefore, d \in DecimalsInputs : toBaseUnits(v, d)
    \/ \E v \in ValueInputs \cup ReturnedBefore, d \in DecimalsInputs : fromBaseUnits(v, d)

SpecConversions == InitConversions /\ [][NextConversions]_vars

\* The whole life of one instance: construction, initialisation, every
\* operation from both call sites and both conversions, on a few inputs each.
LifetimeAmounts == {BN(-1), BN(1)}
LifetimeValues == {Decimal(1, 0), Decimal(15, -1)}

NextLifetime ==
    \/ \E td \in TxDefaultInputs : Construct(td)
    \/ InitNetworkId
    \/ InitAddresses
    \/ \E c \in CallIds, a \in LifetimeAmounts : wrap(c, a, None)
    \/ \E c \in CallIds, a \in LifetimeAmounts : unwrap(c, a, None)
    \/ \E c \in CallIds, a \in LifetimeAmounts : setProxyAllowance(c, a, None)
    \/ \E c \in CallIds : setUnlimitedProxyAllowance(c, None)
    \/ \E c \in CallIds : getEtherBalance(c, None)
    \/ \E c \in CallIds : getWethBalance(c, None)
    \/ \E c \in CallIds, a \in OwnerInputs : getProxyAllowance(c, a)
    \/ \E c \in CallIds : AfterInit(c)
    \/ \E c \in CallIds : SettleDelegated(c)
    \/ \E i \in 1 .. Len(txs), fee \in 1 .. MaxFee : Mine(i, fee)
    \/ \E v \in LifetimeValues : toBaseUnits(v, None)
    \/ \E v \in LifetimeValues : fromBaseUnits(v, None)

SpecLifetime == Init /\ [][NextLifetime]_vars

\* The event loop runs every continuation that is ready to run: a call
\* waiting on a settled initialization resumes, and a delegated call that
\* was issued settles.
FairLifetime ==
    /\ SpecLifetime
    /\ \A c \in CallIds : WF_vars(AfterInit(c)) /\ WF_vars(SettleDelegated(c))

\* ------------------------------------------------------------------ claims
TxsBy(c) == {i \in 1 .. Len(txs) : txs[i].by = c}

\* C1: no operation issues its delegated call before the initialization
\* task has completed successfully: whenever a call has delegated anything,
\* initialization is fulfilled, and each step that issues a delegated call
\* starts from a state in which it already is.
C1_GatedByInit ==
    /\ [](\A c \in CallIds : delegated[c] # <<>> => init.state = "fulfilled")
    /\ [][\A c \in CallIds :
              delegated'[c] # delegated[c] => init.state = "fulfilled" /\ ready]_vars

C1_Witness ==
    \E c \in CallIds :
        /\ call[c].op = "getProxyAllowance"
        /\ delegated[c] # <<>>
        /\ \E d \in CallIds \ {c} : call[d].op = "wrap" /\ delegated[d] # <<>>

\* C2: initialization is started once, by the constructor, and the network-ID
\* lookup, the account lookup and the construction of each binding happen at
\* most once, however many operations are called.
C2_InitializedOnce ==
    /\ started.initialize = (IF constructed = "yes" THEN 1 ELSE 0)
    /\ started.getNetworkId = started.initialize
    /\ started.getAvailableAddresses <= 1
    /\ started.weth <= 1
    /\ started.erc20 <= 1

C2_Witness ==
    /\ init.state = "addresses"
    /\ \A c \in CallIds : call[c].pc = "awaitInit"
    /\ started.getNetworkId = 1
    /\ started.getAvailableAddresses = 1

\* C3: ready is false until initialization has completed successfully, true
\* from then on, and never goes back to false.
C3_ReadyLifecycle ==
    /\ [](ready <=> init.state = "fulfilled")
    /\ [][ready => ready']_vars

C3_Witness ==
    /\ ready
    /\ \E c \in CallIds : call[c].pc = "rejected"
    /\ \E i \in 1 .. Len(txs) : txs[i].status = "success"

\* C4: a failed initialization step rejects the task with the initialization
\* prefix followed by the underlying message; from then on ready stays false,
\* nothing of the task is started again, and no operation issues a delegated
\* call or is fulfilled: a call still waiting can take its next step, which
\* rejects it.
InitFailureMessages == {UnderlyingError, <<"Unknown network id">>}

C4_InitFailure ==
    /\ [](init.state = "rejected" =>
            /\ \E m \in InitFailureMessages : init.error = <<InitPrefix>> \o m
            /\ ~ready
            /\ \A c \in CallIds :
                  /\ delegated[c] = <<>>
                  /\ call[c].pc \in {"idle", "awaitInit", "rejected"}
                  /\ call[c].pc = "awaitInit" => ENABLED AfterInit(c)
                  /\ TxsBy(c) = {})
    /\ [][init.state = "rejected" => init' = init /\ started' = started /\ ~ready']_vars

C4_Witness ==
    /\ init.state = "rejected"
    /\ init.error = <<InitPrefix, "Unknown network id">>
    /\ \E c \in CallIds :
          call[c].op = "wrap" /\ call[c].pc = "rejected" /\ call[c].error = init.error

\* C5 (as claimed): an operation whose delegated call failed rejects with its
\* own prefix followed by the underlying message.
C5_AnnotatedFailure ==
    \A c \in CallIds :
        call[c].pc = "rejected" /\ delegated[c] # <<>> =>
            call[c].error = <<Prefix(call[c].op)>> \o UnderlyingError

\* C6: wrap, unwrap and setProxyAllowance with a negative amount never
\* delegate a call, never submit a transaction and are never fulfilled.
IsNegative(amount) == amount.isBN /\ amount.int < 0

C6_NegativeRejected ==
    \A c \in CallIds :
        call[c].op \in AmountOps /\ IsNegative(call[c].amount) =>
            /\ delegated[c] = <<>>
            /\ TxsBy(c) = {}
            /\ call[c].pc \in {"awaitInit", "rejected"}

C6_Witness ==
    /\ ready
    /\ \A c \in CallIds :
          /\ IsNegative(call[c].amount)
          /\ call[c].pc = "rejected"
          /\ call[c].error = <<"amount cannot be a negative number">>
    /\ \E c \in CallIds : call[c].op = "unwrap"
    /\ \E c \in CallIds : call[c].op = "setProxyAllowance"

\* C7 (as claimed): wrap and unwrap with an amount above MAX_UINT256 are
\* rejected by the amount validation, so they never delegate a call.
C7_OverflowRejectedByValidation ==
    \A c \in CallIds :
        /\ call[c].op \in {"wrap", "unwrap"}
        /\ call[c].amount.isBN
        /\ call[c].amount.int > MAX_UINT256
        => delegated[c] = <<>>

\* C8 (as claimed): a fulfilled wrap(a) or unwrap(a), called without per-call
\* options, has issued exactly one delegated call, a deposit carrying a as its
\* value or a withdraw with a as its argument, and returns the ID of the
\* transaction that call submitted.
C8_OneCallCarryingAmount ==
    \A c \in CallIds :
        /\ call[c].op \in {"wrap", "unwrap"}
        /\ call[c].options = None
        /\ call[c].pc = "fulfilled"
        => /\ Len(delegated[c]) = 1
           /\ IF call[c].op = "wrap"
              THEN /\ delegated[c][1].kind = "deposit"
                   /\ delegated[c][1].txData.value = Some(call[c].amount.int)
              ELSE /\ delegated[c][1].kind = "withdraw"
                   /\ delegated[c][1].arg = Some(call[c].amount.int)
           /\ TxsBy(c) = {Get(call[c].result)}

\* C9 (as claimed): when a transaction submitted by wrap(a) is mined
\* successfully, its sender's WETH balance grows by exactly a and its ETH
\* balance falls by more than a.
C9_WrapEffect ==
    [][\A i \in 1 .. Len(txs) :
          /\ call[txs[i].by].op = "wrap"
          /\ txs[i].status = "pending"
          /\ txs'[i].status = "success"
          => LET a == call[txs[i].by].amount.int
                 s == txs[i].from
             IN /\ wethBal'[s] = wethBal[s] + a
                /\ ethBal'[s] < ethBal[s] - a]_vars

\* C10: when a transaction submitted by unwrap(a) is mined successfully, its
\* sender's WETH balance falls by exactly a and its ETH balance ends below
\* the previous balance plus a.
C10_UnwrapEffect ==
    [][\A i \in 1 .. Len(txs) :
          /\ call[txs[i].by].op = "unwrap"
          /\ txs[i].status = "pending"
          /\ txs'[i].status = "success"
          => LET a == call[txs[i].by].amount.int
                 s == txs[i].from
             IN /\ wethBal'[s] = wethBal[s] - a
                /\ ethBal'[s] < ethBal[s] + a]_vars

C10_Witness ==
    \E i \in 1 .. Len(txs) :
        /\ call[txs[i].by].op = "unwrap"
        /\ txs[i].status = "success"
        /\ call[txs[i].by].amount = BN(1)
        /\ wethBal[txs[i].from] = WethStart - 1

\* The account a read without an address is about: the provider's first.
Subject(c) ==
    IF IsSome(call[c].address) THEN Get(call[c].address) ELSE provider.accounts[1]

\* The call c's promise is fulfilled in this step.
Fulfils(c) == call[c].pc = "awaitCall" /\ call'[c].pc = "fulfilled"

\* The transaction i is mined successfully in this step.
Succeeds(i) == txs[i].status = "pending" /\ txs'[i].status = "success"

\* C11: when getEtherBalance is fulfilled, its result is the base-currency
\* balance, at that moment, of the address it was given, or of the
\* provider's first account when it was given none.
C11_EtherBalance ==
    [][\A c \in CallIds :
          call[c].op = "getEtherBalance" /\ Fulfils(c)
          => call'[c].result = Some(ethBal[Subject(c)])]_vars

C11_Witness ==
    \E c \in CallIds :
        /\ call[c].op = "getEtherBalance"
        /\ call[c].pc = "fulfilled"
        /\ call[c].address = Some("0xA2")
        /\ coinbase = "0xA1"
        /\ call[c].result # None
        /\ Get(call[c].result) < EthStart
        /\ ethBal["0xA1"] = EthStart

\* C12: when getWethBalance is fulfilled, it has read the canonical WETH
\* token of the provider's network, and its result is the balance in that
\* token, at that moment, of the address it was given, or of the provider's
\* first account when it was given none.
C12_WethBalance ==
    [][\A c \in CallIds :
          call[c].op = "getWethBalance" /\ Fulfils(c)
          => /\ LastDelegated(c).token = etherToken(provider.networkId)
             /\ call'[c].result = Some(wethBal[Subject(c)])]_vars

C12_Witness ==
    \E c \in CallIds :
        /\ call[c].op = "getWethBalance"
        /\ call[c].pc = "fulfilled"
        /\ call[c].address = None
        /\ call[c].result = Some(WethStart + 1)

\* C13: when a transaction submitted by setProxyAllowance(a) is mined
\* successfully, it is an approval on the canonical WETH token and the
\* sender's allowance to the proxy becomes exactly a, whatever it was.
C13_AllowanceSet ==
    [][\A i \in 1 .. Len(txs) :
          call[txs[i].by].via = "setProxyAllowance" /\ Succeeds(i)
          => /\ delegated[txs[i].by][1].token = etherToken(provider.networkId)
             /\ allowance'[txs[i].from] = call[txs[i].by].amount.int]_vars

C13_Witness ==
    \E i, j \in 1 .. Len(txs) :
        /\ call[txs[i].by].via = "setProxyAllowance"
        /\ call[txs[j].by].via = "setProxyAllowance"
        /\ txs[i].status = "success"
        /\ txs[j].status = "success"
        /\ txs[i].from = txs[j].from
        /\ call[txs[i].by].amount = BN(1)
        /\ call[txs[j].by].amount = BN(0)
        /\ allowance[txs[i].from] = 0

\* C14: a call of setUnlimitedProxyAllowance(txOptions) runs setProxyAllowance
\* with the amount 2^256 - 1 and the same options: the amount passes
\* validation, the call delegated is the one setProxyAllowance(2^256 - 1,
\* txOptions) delegates, and when its transaction is mined successfully the
\* sender's allowance becomes 2^256 - 1.
C14_UnlimitedAllowance ==
    /\ [](\A c \in CallIds :
            call[c].via = "setUnlimitedProxyAllowance"
            => /\ call[c].op = "setProxyAllowance"
               /\ ValidateAmount(call[c].amount) = <<>>
               /\ delegated[c] # <<>>
                  => delegated[c] =
                        <<[kind |-> "setProxyAllowance", token |-> wethAddress,
                           arg |-> Some(MAX_UINT256), owner |-> Undefined,
                           txData |-> Options(call[c].options)]>>)
    /\ [][\A i \in 1 .. Len(txs) :
             call[txs[i].by].via = "setUnlimitedProxyAllowance" /\ Succeeds(i)
             => allowance'[txs[i].from] = MAX_UINT256]_vars

C14_Witness ==
    \E i \in 1 .. Len(txs) :
        /\ call[txs[i].by].via = "setUnlimitedProxyAllowance"
        /\ txs[i].status = "success"
        /\ allowance[txs[i].from] = MAX_UINT256
        /\ MAX_UINT256 > 0

\* The successful approvals sent from the provider's first account.
CoinbaseApprovals ==
    {i \in 1 .. Len(txs) :
        /\ txs[i].kind = "setProxyAllowance"
        /\ txs[i].status = "success"
        /\ txs[i].from = provider.accounts[1]}

\* C15: when getProxyAllowance is fulfilled, it has read the canonical WETH
\* token, and its result is the allowance, at that moment, that the owner it
\* was given (the provider's first account when it was given none) grants
\* the proxy; called without an owner after the only approval from that
\* account, made by setProxyAllowance(a), has succeeded, it returns a.
C15_ProxyAllowance ==
    [][\A c \in CallIds :
          call[c].op = "getProxyAllowance" /\ Fulfils(c)
          => /\ LastDelegated(c).token = etherToken(provider.networkId)
             /\ call'[c].result = Some(allowance[Subject(c)])
             /\ \A i \in CoinbaseApprovals :
                   call[c].address = None /\ CoinbaseApprovals = {i}
                   => call'[c].result = Some(call[txs[i].by].amount.int)]_vars

C15_Witness ==
    \E c \in CallIds, i \in CoinbaseApprovals :
        /\ call[c].op = "getProxyAllowance"
        /\ call[c].pc = "fulfilled"
        /\ call[c].address = None
        /\ call[txs[i].by].amount = BN(1)
        /\ call[c].result = Some(1)

\* ------------------------------------------------------ conversion claims
NonNegative(v) == ~v.nan /\ v.m >= 0

\* The number of fractional digits of the number m * 10^e.
RECURSIVE FractionDigits(_)
FractionDigits(v) ==
    IF v.m = 0 \/ v.e >= 0 THEN 0
    ELSE IF v.m % 10 = 0 THEN FractionDigits(Decimal(v.m \div 10, v.e + 1))
    ELSE -v.e

\* x and y are the same number.
RECURSIVE SameNumber(_, _)
SameNumber(x, y) ==
    IF x.nan \/ y.nan THEN FALSE
    ELSE IF x.e = y.e THEN x.m = y.m
    ELSE IF x.e > y.e
    THEN y.m % 10 = 0 /\ SameNumber(x, Decimal(y.m \div 10, y.e + 1))
    ELSE SameNumber(y, x)

\* The decimals a conversion is asked to scale by.
AskedDecimals == IF conv.decimals = None THEN DefaultDecimals ELSE Get(conv.decimals)

\* C16, as stated: for every non-negative numeric v and every d,
\* toBaseUnits(v, d) returns v * 10^d, with d = 18 when it is omitted.
C16_ToBaseUnitsOfAnyValue ==
    conv.fn = "toBaseUnits" /\ NonNegative(conv.value)
    => /\ ~conv.threw
       /\ SameNumber(conv.out, Decimal(conv.value.m, conv.value.e + AskedDecimals))

\* C16, amended: for every non-negative numeric v with at most d fractional
\* digits, toBaseUnits(v, d) returns v * 10^d, with d = 18 when it is omitted.
C16_ToBaseUnits ==
    /\ conv.fn = "toBaseUnits"
    /\ NonNegative(conv.value)
    /\ FractionDigits(conv.value) <= AskedDecimals
    => /\ ~conv.threw
       /\ SameNumber(conv.out, Decimal(conv.value.m, conv.value.e + AskedDecimals))

C16_Witness ==
    /\ conv.fn = "toBaseUnits"
    /\ conv.value = Decimal(15, -1)
    /\ conv.decimals = None
    /\ conv.out = Decimal(15, 17)

\* C17: for every non-negative whole number b of base units and every d,
\* fromBaseUnits(b, d) returns b / 10^d, with d = 18 when it is omitted.
C17_FromBaseUnits ==
    /\ conv.fn = "fromBaseUnits"
    /\ NonNegative(conv.value)
    /\ FractionDigits(conv.value) = 0
    => /\ ~conv.threw
       /\ SameNumber(conv.out, Decimal(conv.value.m, conv.value.e - AskedDecimals))

C17_Witness ==
    /\ conv.fn = "fromBaseUnits"
    /\ conv.value = Decimal(15, 0)
    /\ conv.decimals = Some(1)
    /\ conv.out = Decimal(15, -1)

\* C18, as stated: for every non-negative v and every d, neither conversion
\* rejects v, and converting what the one returned back with the other, at
\* the same d, returns v without rejecting.
C18_RoundTripOfAnyValue ==
    /\ conv.fn # "none" /\ NonNegative(conv.value) => ~conv.threw
    /\ conv.roundTripOf # None
       => ~conv.threw /\ SameNumber(conv.out, Get(conv.roundTripOf))

\* C18, amended: toBaseUnits does not reject a non-negative v with at most d
\* fractional digits, fromBaseUnits does not reject a non-negative whole v,
\* and converting what the one returned back with the other, at the same d,
\* returns v without rejecting.
C18_RoundTrip ==
    /\ /\ conv.fn = "toBaseUnits"
       /\ NonNegative(conv.value)
       /\ FractionDigits(conv.value) <= AskedDecimals
       => ~conv.threw
    /\ /\ conv.fn = "fromBaseUnits"
       /\ NonNegative(conv.value)
       /\ FractionDigits(conv.value) = 0
       => ~conv.threw
    /\ conv.roundTripOf # None
       => ~conv.threw /\ SameNumber(conv.out, Get(conv.roundTripOf))

C18_Witness ==
    /\ conv.fn = "fromBaseUnits"
    /\ conv.roundTripOf = Some(Decimal(15, -1))
    /\ conv.decimals = Some(1)
    /\ conv.value = Decimal(15, 0)
    /\ conv.out = Decimal(15, -1)

\* C19: toBaseUnits and fromBaseUnits throw, and return no value, for every
\* negative input and for every input that is not numeric.
C19_RejectsNegativeAndNonNumeric ==
    conv.fn # "none" /\ (conv.value.nan \/ conv.value.m < 0)
    => conv.threw /\ conv.error # <<>> /\ conv.out = NaN

C19_Witness ==
    /\ conv.fn = "fromBaseUnits"
    /\ conv.value = NaN
    /\ conv.threw

\* ---------------------------------------------------------- sender claims
\* C20: a transaction submitted by wrap or unwrap is sent from the `from` of
\* the per-call options when they have one, otherwise from the `from` the
\* constructor was given, otherwise from the provider's first account.
C20_Sender ==
    \A i \in 1 .. Len(txs) :
        call[txs[i].by].op \in {"wrap", "unwrap"}
        => LET o == call[txs[i].by].options
           IN txs[i].from =
                 IF IsSome(o) /\ IsSome(Get(o).from) THEN Get(Get(o).from)
                 ELSE IF IsSome(configured.from) THEN Get(configured.from)
                 ELSE provider.accounts[1]

C20_Witness ==
    \E i \in 1 .. Len(txs) :
        /\ call[txs[i].by].op = "unwrap"
        /\ call[txs[i].by].options = Some(EmptyTxData)
        /\ configured.from = None
        /\ txs[i].from = "0xA1"
        /\ txs[i].status = "success"

\* ------------------------------------------------------- lifecycle claims
\* C21: once initialization has completed successfully, networkId is the
\* network ID the provider reports, wethAddress the canonical wrapped-ether
\* token registered for it, and coinbase the provider's first available
\* address.
C21_DerivedState ==
    init.state = "fulfilled"
    => /\ networkId = provider.networkId
       /\ provider.networkId \in KnownNetworks
       /\ wethAddress = etherToken(provider.networkId)
       /\ provider.accounts # <<>> => coinbase = provider.accounts[1]

C21_Witness ==
    /\ init.state = "fulfilled"
    /\ provider.accounts = <<"0xA1", "0xA2">>
    /\ coinbase = "0xA1"
    /\ networkId = "50"
    /\ wethAddress = etherToken("50")

\* C22: the constructor, given an invalid provider, throws with no field
\* set, no initialization started and no network call made, and nothing
\* happens to the instance afterwards; given a valid provider it returns
\* with ready false, initialization pending on its first lookup and no
\* derived field assigned yet.
C22_Constructor ==
    /\ [](constructed = "threw"
            => /\ ~provider.valid
               /\ init.state = "none"
               /\ started = [initialize |-> 0, getNetworkId |-> 0,
                             getAvailableAddresses |-> 0, weth |-> 0, erc20 |-> 0]
               /\ ~ready
               /\ txDefaults = EmptyTxData
               /\ <<networkId, wethAddress, coinbase>> = <<Undefined, Undefined, Undefined>>
               /\ weth = None /\ erc20 = None)
    /\ [][constructed = "no" /\ constructed' # "no"
            => IF provider.valid
               THEN /\ constructed' = "yes"
                    /\ ~ready'
                    /\ init'.state = "networkId"
                    /\ started'.initialize = 1
                    /\ UNCHANGED <<networkId, wethAddress, coinbase, weth, erc20>>
               ELSE /\ constructed' = "threw"
                    /\ UNCHANGED <<ready, networkId, wethAddress, coinbase, txDefaults,
                                   weth, erc20, init, started>>]_vars

C22_Witness == constructed = "threw" /\ ~provider.valid /\ started.initialize = 0

\* C23: networkId, wethAddress and coinbase are each assigned at most once
\* in the life of an instance, an assigned one never changes, and once ready
\* is true no step of any operation or conversion changes any of them, or
\* ready.
C23_PopulatedOnce ==
    /\ [](assigned.networkId <= 1 /\ assigned.wethAddress <= 1 /\ assigned.coinbase <= 1)
    /\ [][/\ networkId # Undefined => networkId' = networkId
          /\ wethAddress # Undefined => wethAddress' = wethAddress
          /\ coinbase # Undefined => coinbase' = coinbase
          /\ ready => ready' /\ UNCHANGED <<networkId, wethAddress, coinbase, assigned>>]_vars

C23_Witness ==
    /\ ready
    /\ assigned = [networkId |-> 1, wethAddress |-> 1, coinbase |-> 1]
    /\ call["c1"].pc = "fulfilled"
    /\ call["c2"].pc = "rejected"
    /\ conv.fn # "none"

\* What the last conversion did.
Outcome == [threw |-> conv.threw, error |-> conv.error, out |-> conv.out]

\* C24: from the moment the constructor has returned, in every state of the
\* initialization, both conversions can be called on every input without
\* waiting; what a call does depends on its arguments alone, and it
\* changes nothing of the instance or of the operations in flight.
C24_ConversionsStandAlone ==
    /\ [](constructed = "yes"
            => \A v \in ValueInputs, d \in DecimalsInputs :
                  ENABLED toBaseUnits(v, d) /\ ENABLED fromBaseUnits(v, d))
    /\ [](/\ conv.fn = "toBaseUnits" => Outcome = ToBaseUnits(conv.value, conv.decimals)
          /\ conv.fn = "fromBaseUnits" => Outcome = FromBaseUnits(conv.value, conv.decimals))
    /\ [][conv' # conv
            => UNCHANGED <<provider, helperVars, init, started, call, delegated,
                           chainVars>>]_vars

C24_Witness ==
    /\ conv.fn = "toBaseUnits"
    /\ conv.value = Decimal(1, 0)
    /\ conv.out = Decimal(1, 18)
    /\ init.state = "networkId"
    /\ ~ready

C26_GateBeforeValidation ==
    /\ [](\A c \in CallIds :
            call[c].op \in AmountOps /\ call[c].pc = "rejected"
            => /\ init.state \in {"fulfilled", "rejected"}
               /\ init.state = "rejected" => call[c].error = init.error)
    /\ [][\A c \in CallIds :
             /\ call[c].op \in AmountOps
             /\ call[c].pc = "awaitInit"
             /\ init'.state \notin {"fulfilled", "rejected"}
             => call'[c].pc = "awaitInit"]_vars

C26_Witness ==
    \E c \in CallIds :
        /\ call[c].op = "unwrap"
        /\ call[c].amount = BN(-1)
        /\ call[c].pc = "rejected"
        /\ init.state = "rejected"
        /\ call[c].error = Annotate(InitPrefix, <<"Unknown network id">>)

\* C27: whenever ready is true, networkId, wethAddress, coinbase, the
\* default sender and both bindings have been assigned; ready becomes true
\* in the step that completes initialization, and from then on nothing
\* writes any of them.
C27_ReadyMeansAssigned ==
    /\ [](ready
            => /\ networkId # Undefined
               /\ wethAddress # Undefined
               /\ coinbase # Undefined
               /\ IsSome(txDefaults.from)
               /\ IsSome(weth)
               /\ IsSome(erc20)
               /\ init.state = "fulfilled")
    /\ [][/\ ~ready /\ ready' => init.state = "addresses" /\ init'.state = "fulfilled"
          /\ ready => UNCHANGED <<networkId, wethAddress, coinbase, txDefaults, weth,
                                  erc20, ready, init>>]_vars

C27_Witness ==
    /\ ready
    /\ coinbase = "0xA1"
    /\ txDefaults.from = Some("0xA1")
    /\ Get(weth).address = etherToken("50")
    /\ IsSome(erc20)

Settled(c) == call[c].pc \in {"fulfilled", "rejected"}

InitSettled == init.state \in {"fulfilled", "rejected"}

\* C28: a call that is waiting on the initialization, once the
\* initialization has settled, eventually settles itself; no call is ever
\* delegated more than once; a settled call has delegated exactly once when
\* the initialization succeeded and its amount was valid, and has rejected
\* without delegating when the initialization failed.
C28_PendingCallsSettle ==
    /\ \A c \in CallIds :
          (call[c].pc = "awaitInit" /\ InitSettled) ~> Settled(c)
    /\ \A c \in CallIds : (call[c].pc = "awaitCall") ~> Settled(c)
    /\ [](\A c \in CallIds :
            /\ Len(delegated[c]) <= 1
            /\ Settled(c) /\ delegated[c] = <<>>
               => \/ init.state = "rejected" /\ call[c].pc = "rejected"
                  \/ call[c].op \in AmountOps /\ ValidateAmount(call[c].amount) # <<>>
                  \/ call[c].op = "getProxyAllowance" /\ call[c].address = Some("foo")
            /\ Settled(c) /\ init.state = "rejected" => delegated[c] = <<>>)

C28_Witness ==
    /\ init.state = "networkId"
    /\ \A c \in CallIds : call[c].pc = "awaitInit"
    /\ call["c1"].op = "wrap" /\ call["c1"].amount = BN(1)
    /\ call["c2"].op = "getEtherBalance"

InstanceState ==
    <<ready, networkId, wethAddress, coinbase, txDefaults, weth, erc20, init>>

\* C30: the step in which an operation rejects changes no field of the
\* instance; and on a ready instance on which a call has rejected, a call
\* with a valid amount that is waiting to run can run and issue its
\* delegated call.
C30_RejectionLeavesState ==
    /\ [][\A c \in CallIds :
             call[c].pc # "rejected" /\ call'[c].pc = "rejected"
             => UNCHANGED InstanceState]_vars
    /\ [](\A c, d \in CallIds :
            /\ call[c].pc = "rejected"
            /\ ready
            /\ call[d].pc = "awaitInit"
            /\ call[d].op \in AmountOps => ValidateAmount(call[d].amount) = <<>>
            => ENABLED (AfterInit(d) /\ Len(delegated'[d]) = 1))

C30_Witness ==
    /\ ready
    /\ call["c1"].op = "wrap"
    /\ call["c1"].pc = "rejected"
    /\ call["c1"].error = ValidateAmount(BN(-1))
    /\ call["c2"].op = "wrap"
    /\ call["c2"].amount = BN(1)
    /\ Len(delegated["c2"]) = 1
    /\ call["c2"].pc = "fulfilled"

====
